---- MODULE Spec2Model ----
(***************************************************************************)
(* Model of the two HTTP services of Google-Search-MCP-Server:             *)
(*   src/link_view.py      LinkViewer, /analyze, /batch_analyze            *)
(*   src/google_search.py  MCPServer, /search                              *)
(* Texts (URLs, markdown) are sequences of one-character strings.          *)
(* A value that the code names once and reads several times is passed as   *)
(* an operator argument, so every operator is written out once.            *)
(***************************************************************************)
EXTENDS Integers, Sequences, FiniteSets, TLC

VARIABLES
    page,       \* link_view: the document the network serves for a successful fetch
    req,        \* link_view: the JSON body of the request being answered
    resp,       \* link_view: the HTTP response to that request
    calls,      \* link_view: the extract_content calls made for it, in order
    environ,    \* google_search: os.environ
    configFile, \* google_search: api-keys.json
    mcp,        \* google_search: the MCPServer object (api_key, cse_id, search_service)
    phase,      \* google_search: "boot", "serving" or "fatal"
    sreq,       \* google_search: the JSON body of the /search request being answered
    sresp,      \* google_search: the HTTP response to that request
    upcall      \* google_search: the upstream calls made for it: parameters and what upstream did

vars == <<page, req, resp, calls, environ, configFile, mcp, phase, sreq, sresp, upcall>>

lvVars == <<page, req, resp, calls>>

gsVars == <<environ, configFile, mcp, phase, sreq, sresp, upcall>>

(***************************************************************************)
(* Bounds of the model and constants of the program.                       *)
(***************************************************************************)
MaxUrlLen == 5
MaxTextLen == 5
MaxNodes == 3
MaxTags == 2
MaxBatch == 3
MaxOver == 2
MaxExtraNum == 2
PreviewLen == 500
MaxResults == 10

(***************************************************************************)
(* Generic helpers.                                                        *)
(***************************************************************************)
SeqsUpTo(S, n) == UNION {[1..k -> S] : k \in 0..n}

Min(S) == CHOOSE x \in S : \A y \in S : x <= y

Max(S) == CHOOSE x \in S : \A y \in S : x >= y

MinOr(S, default) == IF S = {} THEN default ELSE Min(S)

None == "None"

\* dict.get(key, default)
Get(d, k, default) == IF k \in DOMAIN d THEN d[k] ELSE default

\* d[key] = value
SetItem(d, key, value) == [k \in DOMAIN d \cup {key} |-> IF k = key THEN value ELSE d[k]]

EmptyDict == [k \in {} |-> None]

\* the concatenation of Emit(s, k) for k = lo..hi
RECURSIVE FlatMap(_, _, _, _)
FlatMap(Emit(_, _), s, lo, hi) ==
    IF lo > hi THEN <<>>
    ELSE IF lo = hi THEN Emit(s, lo)
    ELSE FlatMap(Emit, s, lo, (lo + hi) \div 2) \o FlatMap(Emit, s, ((lo + hi) \div 2) + 1, hi)

(***************************************************************************)
(* Characters.                                                             *)
(***************************************************************************)
NL == "\n"

SP == " "

TAB == "\t"

\* regex \s
IsSpace(c) == c \in {NL, SP, TAB}

\* regex [A-Za-z0-9]
IsAlnum(c) == c \in {"a", "b", "c", "d", "e", "h", "n", "o", "N", "1"}

\* regex \w
IsWord(c) == IsAlnum(c) \/ c = "_"

(***************************************************************************)
(* LinkViewer._clean_markdown                                              *)
(***************************************************************************)
\* the maximal run of \s characters around position k, as [first, last]
WsRunFirst(s, k) == Max({j \in 1..k : j = 1 \/ ~IsSpace(s[j - 1])})

WsRunLast(s, k) == Min({j \in k..Len(s) : j = Len(s) \/ ~IsSpace(s[j + 1])})

NewlinesIn(s, lo, hi) == {j \in lo..hi : s[j] = NL}

\* What the substitution leaves of position k, given the newlines of k's run.
\* A match of \n\s*\n\s*\n starts at the first newline of a whitespace run that
\* holds at least three, and (\s* is greedy) ends at the last newline of the run.
BlankEmit(s, k, nls) ==
    IF Cardinality(nls) < 3 \/ k < Min(nls) \/ k > Max(nls) THEN <<s[k]>>
    ELSE IF k = Min(nls) THEN <<NL, NL>>
    ELSE <<>>

EmitBlankLines(s, k) ==
    IF ~IsSpace(s[k]) THEN <<s[k]>>
    ELSE BlankEmit(s, k, NewlinesIn(s, WsRunFirst(s, k), WsRunLast(s, k)))

\* re.sub(r'\n\s*\n\s*\n', '\n\n', s)
SubBlankLines(s) == FlatMap(EmitBlankLines, s, 1, Len(s))

EmitSpaces(s, k) == IF s[k] = SP /\ k > 1 /\ s[k - 1] = SP THEN <<>> ELSE <<s[k]>>

\* re.sub(r' +', ' ', s)
SubSpaces(s) == FlatMap(EmitSpaces, s, 1, Len(s))

EmitHeaders(s, k) ==
    IF s[k] = "#" /\ k < Len(s) /\ IsAlnum(s[k + 1]) THEN <<"#", SP>> ELSE <<s[k]>>

\* re.sub(r'#([A-Za-z0-9])', r'# \1', s)
SubHeaders(s) == FlatMap(EmitHeaders, s, 1, Len(s))

StripTo(s, keep) == IF keep = {} THEN <<>> ELSE SubSeq(s, Min(keep), Max(keep))

\* str.strip()
Strip(s) == StripTo(s, {k \in 1..Len(s) : ~IsSpace(s[k])})

\* mutant: the spaces are not collapsed
clean_markdown_keepSpaces(md_text) == Strip(SubHeaders(SubBlankLines(md_text)))

clean_markdown(md_text) == Strip(SubHeaders(SubSpaces(SubBlankLines(md_text))))

\* len(re.findall(r'\w+', s)): the number of maximal runs of word characters
WordCount(s) ==
    Cardinality({k \in 1..Len(s) : IsWord(s[k]) /\ (k = 1 \/ ~IsWord(s[k - 1]))})

(***************************************************************************)
(* urllib.parse.urlparse as LinkViewer.is_valid_url uses it.               *)
(***************************************************************************)
\* urllib's scheme_chars: letters, digits and "+-."
IsSchemeChar(c) == c \in {"h", "1", "+", "-", "."}

IsAlpha(c) == c \in {"h"}

\* str.find(c) + 1
IndexOf(s, c) == MinOr({k \in 1..Len(s) : s[k] = c}, 0)

\* the scheme ends before position i (the first ':') when the text before it
\* starts with a letter and holds scheme characters only
HasScheme(url, i) ==
    i > 1 /\ IsAlpha(url[1]) /\ \A k \in 1..(i - 1) : IsSchemeChar(url[k])

\* _splitnetloc: up to the first of '/', '?', '#'
NetlocOf(after) ==
    SubSeq(after, 1, MinOr({k \in 1..Len(after) : after[k] \in {"/", "?", "#"}}, Len(after) + 1) - 1)

\* urlsplit raises ValueError("Invalid IPv6 URL") on an unbalanced bracket
ParseResult(scheme, netloc) ==
    [raises |-> ("[" \in {netloc[k] : k \in 1..Len(netloc)})
                    # ("]" \in {netloc[k] : k \in 1..Len(netloc)}),
     scheme |-> scheme, netloc |-> netloc]

SplitRest(scheme, rest) ==
    ParseResult(scheme,
        IF Len(rest) >= 2 /\ rest[1] = "/" /\ rest[2] = "/"
        THEN NetlocOf(SubSeq(rest, 3, Len(rest))) ELSE <<>>)

SplitAt(url, i) ==
    IF HasScheme(url, i)
    THEN SplitRest(SubSeq(url, 1, i - 1), SubSeq(url, i + 1, Len(url)))
    ELSE SplitRest(<<>>, url)

urlparse(url) == SplitAt(url, IndexOf(url, ":"))

\* mutant: any([...]) in place of all([...])
AllOf_any(result) == ~result.raises /\ (result.scheme # <<>> \/ result.netloc # <<>>)

\* all([result.scheme, result.netloc]); except: return False
AllOf(result) == ~result.raises /\ result.scheme # <<>> /\ result.netloc # <<>>

is_valid_url(url) == AllOf(urlparse(url))

(***************************************************************************)
(* The parsed document (BeautifulSoup) and the fallback of extract_content.*)
(* A document is its elements in document order, each with its tag, the    *)
(* index of its parent (0: the document itself) and its own text.          *)
(***************************************************************************)
\* soup.select('script, style, nav, footer, header, aside')
Unwanted == {"script", "style", "nav", "footer", "header", "aside"}

SelectUnwanted(dom) == {i \in 1..Len(dom) : dom[i].tag \in Unwanted}

RECURSIVE IsAncestor(_, _, _)
IsAncestor(dom, a, j) ==
    IF j = 0 THEN FALSE
    ELSE dom[j].parent = a \/ IsAncestor(dom, a, dom[j].parent)

\* an element and everything below it
Subtree(dom, i) == {i} \cup {j \in 1..Len(dom) : IsAncestor(dom, i, j)}

\* element.decompose(): alive is the set of elements still in the tree
decompose(dom, alive, element) == alive \ Subtree(dom, element)

\* for element in soup.select(...): element.decompose()    in document order
RECURSIVE DecomposeAll(_, _, _)
DecomposeAll(dom, sel, alive) ==
    IF sel = {} THEN alive
    ELSE DecomposeAll(dom, sel \ {Min(sel)}, decompose(dom, alive, Min(sel)))

\* soup.find(tag): the first element with that tag still in the tree, 0 for None
find(dom, alive, tag) == MinOr({i \in alive : dom[i].tag = tag}, 0)

\* a or b or c, of elements (an element is truthy, None is not)
FirstFound(a, b, c) == IF a # 0 THEN a ELSE IF b # 0 THEN b ELSE c

\* soup.find('main') or soup.find('article') or soup.find('body')
FallbackFragment(dom, alive) ==
    FirstFound(find(dom, alive, "main"), find(dom, alive, "article"), find(dom, alive, "body"))

\* the text of the elements of a set, in document order
RECURSIVE TextOf(_, _)
TextOf(dom, nodes) ==
    IF nodes = {} THEN <<>>
    ELSE dom[Min(nodes)].text \o TextOf(dom, nodes \ {Min(nodes)})

\* markdownify(str(element)): the text the element holds; str(None) is "None"
MarkdownOfElement(dom, alive, el) ==
    IF el = 0 THEN <<"N", "o", "n", "e">>
    ELSE TextOf(dom, Subtree(dom, el) \cap alive)

TextOfFirst(dom, el) == IF el = 0 THEN <<>> ELSE dom[el].text

\* soup.title.string if soup.title else ''
TitleOf(dom, alive) == TextOfFirst(dom, find(dom, alive, "title"))

(***************************************************************************)
(* Meta tags: each tag is the mapping of its attributes.                   *)
(***************************************************************************)
\* tag.get('name', tag.get('property', ''))
MetaName(tag) == Get(tag, "name", Get(tag, "property", ""))

\* tag.get('content', '')
MetaContent(tag) == Get(tag, "content", "")

\* mutant: the first tag of a name wins
MetaStore_firstWins(meta_tags, name, content) ==
    IF name # "" /\ content # "" /\ name \notin DOMAIN meta_tags
    THEN SetItem(meta_tags, name, content) ELSE meta_tags

\* if name and content: meta_tags[name] = content
MetaStore(meta_tags, name, content) ==
    IF name # "" /\ content # "" THEN SetItem(meta_tags, name, content) ELSE meta_tags

\* for tag in soup.find_all('meta'): ...
RECURSIVE CollectMeta(_, _, _)
CollectMeta(tags, k, meta_tags) ==
    IF k > Len(tags) THEN meta_tags
    ELSE CollectMeta(tags, k + 1, MetaStore(meta_tags, MetaName(tags[k]), MetaContent(tags[k])))

(***************************************************************************)
(* LinkViewer.extract_content                                              *)
(***************************************************************************)
\* mutant: >= in place of >
Preview_atLeast(markdown_content) ==
    IF Len(markdown_content) >= PreviewLen
    THEN SubSeq(markdown_content, 1, PreviewLen) \o <<".", ".", ".">>
    ELSE markdown_content

\* markdown_content[:500] + '...' if len(markdown_content) > 500 else markdown_content
Preview(markdown_content) ==
    IF Len(markdown_content) > PreviewLen
    THEN SubSeq(markdown_content, 1, PreviewLen) \o <<".", ".", ".">>
    ELSE markdown_content

\* if main_content_html:    what trafilatura.extract returned is neither None nor ''
PrimaryFound(primary) == ~primary.isNone /\ primary.html # <<>>

\* markdownify of the primary fragment, a text-only HTML: its text
PrimaryConversion(dom, primary) ==
    [frag |-> [kind |-> "primary", node |-> 0], alive |-> 1..Len(dom), raw |-> primary.html]

FallbackOf(dom, alive, el) ==
    [frag  |-> [kind |-> IF el = 0 THEN "None" ELSE "element", node |-> el],
     alive |-> alive,
     raw   |-> MarkdownOfElement(dom, alive, el)]

\* lines 72-78: prune the tree, pick the fragment, convert it
FallbackConversion(dom, alive) == FallbackOf(dom, alive, FallbackFragment(dom, alive))

\* lines 63-78: the fragment converted, the tree left, the markdown produced
Conversion(pg) ==
    IF PrimaryFound(pg.primary) THEN PrimaryConversion(pg.dom, pg.primary)
    ELSE FallbackConversion(pg.dom, DecomposeAll(pg.dom, SelectUnwanted(pg.dom), 1..Len(pg.dom)))

\* lines 84-100: the ExtractedPage
ExtractedPage(url, title, meta_tags, markdown_content) ==
    [url              |-> url,
     title            |-> title,
     description      |-> Get(meta_tags, "description", ""),
     markdown_content |-> markdown_content,
     meta_tags        |-> meta_tags,
     stats            |-> [word_count        |-> WordCount(markdown_content),
                           approximate_chars |-> Len(markdown_content)],
     content_preview  |-> [first_500_chars |-> Preview(markdown_content)]]

\* A call of extract_content: exc is the class of the exception it raised (""
\* when it returned), msg is str(e), fetched whether requests.get was called,
\* net what the fetch did, frag the fragment handed to markdownify.
Returned(url, data, frag) ==
    [url |-> url, exc |-> "", msg |-> <<>>, data |-> data,
     fetched |-> TRUE, net |-> "ok", frag |-> frag]

Raised(url, exc, msg, fetched, net) ==
    [url |-> url, exc |-> exc, msg |-> msg, data |-> None,
     fetched |-> fetched, net |-> net, frag |-> [kind |-> "unreached", node |-> 0]]

\* lines 52-102, for a document that arrived
Extracted(url, pg, conv) ==
    Returned(url,
        ExtractedPage(url, TitleOf(pg.dom, conv.alive), CollectMeta(pg.meta, 1, EmptyDict),
                      clean_markdown(conv.raw)),
        conv.frag)

\* mutant: the handlers re-raise a ValueError
Reraise_asValueError(url, net) ==
    Raised(url, "ValueError", <<"Failed to fetch content: ", net>>, TRUE, net)

\* except requests.RequestException: raise Exception("Failed to fetch content: ...")
\* except Exception:                 raise Exception("Error processing content: ...")
Reraise(url, net) ==
    IF net = "RequestException"
    THEN Raised(url, "Exception", <<"Failed to fetch content: ", net>>, TRUE, net)
    ELSE Raised(url, "Exception", <<"Error processing content: ", net>>, TRUE, net)

\* The outcomes of a fetch: the page arrives and converts; requests raises a
\* RequestException (network failure, timeout, raise_for_status); or some other
\* exception is raised while parsing or converting.
NetOutcomes == {"ok", "RequestException", "OtherException"}

\* lines 46-107
FetchAndConvert(url, net, pg) ==
    IF net = "ok" THEN Extracted(url, pg, Conversion(pg)) ELSE Reraise(url, net)

extract_content(url, net, pg) ==
    IF ~is_valid_url(url)
    THEN Raised(url, "ValueError", <<"Invalid URL provided">>, FALSE, "none")
    ELSE FetchAndConvert(url, net, pg)

(***************************************************************************)
(* The request bodies: request.get_json() is None or a JSON object, given  *)
(* by its keys and the values of the keys the handlers read.               *)
(***************************************************************************)
Body(keys, url, urls) == [isNone |-> FALSE, keys |-> keys, url |-> url, urls |-> urls]

NoBody == [isNone |-> TRUE, keys |-> {}, url |-> <<>>, urls |-> <<>>]

\* not data
Falsy(data) == data.isNone \/ data.keys = {}

Response(status, body) == [status |-> status, body |-> body]

ErrorBody(msg) == [error |-> msg]

Handled(response, made) == [resp |-> response, calls |-> made]

(***************************************************************************)
(* analyze_link: POST /analyze                                             *)
(***************************************************************************)
\* lines 120-126
AnalyzeReply(r) ==
    Handled(CASE r.exc = "" -> Response(200, r.data)
              [] r.exc = "ValueError" -> Response(400, ErrorBody(r.msg))
              [] OTHER -> Response(500, ErrorBody(<<"Analysis failed: ">> \o r.msg)),
            <<r>>)

analyze_link(data, net, pg) ==
    IF Falsy(data) \/ "url" \notin data.keys
    THEN Handled(Response(400, ErrorBody(<<"Missing URL">>)), <<>>)
    ELSE AnalyzeReply(extract_content(data.url, net, pg))

(***************************************************************************)
(* batch_analyze: POST /batch_analyze                                      *)
(***************************************************************************)
\* mutant: a failed URL is skipped (except: continue)
BatchStep_skip(acc, r) ==
    [results |-> IF r.exc = "" THEN SetItem(acc.results, r.url, r.data) ELSE acc.results,
     calls   |-> Append(acc.calls, r)]

\* try: results[url] = viewer.extract_content(url)
\* except Exception as e: results[url] = {'error': str(e)}
BatchStep(acc, r) ==
    [results |-> SetItem(acc.results, r.url, IF r.exc = "" THEN r.data ELSE ErrorBody(r.msg)),
     calls   |-> Append(acc.calls, r)]

\* for url in data['urls']: ...
RECURSIVE BatchLoop(_, _, _, _, _)
BatchLoop(urls, nets, pg, k, acc) ==
    IF k > Len(urls) THEN acc
    ELSE BatchLoop(urls, nets, pg, k + 1, BatchStep(acc, extract_content(urls[k], nets[k], pg)))

BatchReply(acc) == Handled(Response(200, acc.results), acc.calls)

batch_analyze(data, nets, pg) ==
    IF Falsy(data) \/ "urls" \notin data.keys
    THEN Handled(Response(400, ErrorBody(<<"Missing URLs">>)), <<>>)
    ELSE BatchReply(BatchLoop(data.urls, nets, pg, 1, [results |-> EmptyDict, calls |-> <<>>]))

(***************************************************************************)
(* The extraction service as a state machine.                              *)
(***************************************************************************)
NoRequest == [isNone |-> TRUE, keys |-> {"-"}, url |-> <<>>, urls |-> <<>>]

NoResponse == Response(0, ErrorBody(<<>>))

LvInit(Pages) ==
    /\ page \in Pages
    /\ req = NoRequest
    /\ resp = NoResponse
    /\ calls = <<>>

\* The worker takes a request only when it holds none (one request at a time).
Idle == req = NoRequest

Answer(data, out) ==
    /\ req' = data
    /\ resp' = out.resp
    /\ calls' = out.calls

\* one POST /analyze, handled to its response
Analyze(Datas, Nets) ==
    /\ Idle
    /\ \E data \in Datas, net \in Nets : Answer(data, analyze_link(data, net, page))
    /\ UNCHANGED <<page, gsVars>>

\* one POST /batch_analyze, handled to its response
BatchAnalyze(Datas, Nets) ==
    /\ Idle
    /\ \E data \in Datas :
           \E nets \in [1..Len(data.urls) -> Nets] : Answer(data, batch_analyze(data, nets, page))
    /\ UNCHANGED <<page, gsVars>>

\* The response is sent; nothing of the request is kept (the handlers are stateless).
Reply ==
    /\ ~Idle
    /\ req' = NoRequest
    /\ resp' = NoResponse
    /\ calls' = <<>>
    /\ UNCHANGED <<page, gsVars>>

(***************************************************************************)
(* MCPServer.load_settings and initialize_google_search                    *)
(***************************************************************************)
\* not value, of a string or None
Truthy(v) == v # None /\ v # ""

Credentials(raises, api_key, cse_id) == [raises |-> raises, api_key |-> api_key, cse_id |-> cse_id]

\* lines 27-31: open raises when the file is missing, json.load when it is no JSON
FromFile(cfg, api_key, cse_id) ==
    IF ~cfg.exists \/ ~cfg.valid THEN Credentials(TRUE, api_key, cse_id)
    ELSE Credentials(FALSE, Get(cfg.config, "api_key", None),
                            Get(cfg.config, "search_engine_id", None))

\* lines 22-31
FromEnviron(cfg, api_key, cse_id) ==
    IF ~Truthy(api_key) \/ ~Truthy(cse_id) THEN FromFile(cfg, api_key, cse_id)
    ELSE Credentials(FALSE, api_key, cse_id)

\* self.search_service = build("customsearch", "v1", developerKey=self.api_key)
initialize_google_search(cred) ==
    [ok |-> TRUE,
     obj |-> [api_key |-> cred.api_key, cse_id |-> cred.cse_id, search_service |-> "customsearch"]]

\* mutant: "and" in place of "or" in the check of line 33
Loaded_and(cred, built) ==
    IF cred.raises \/ (~Truthy(cred.api_key) /\ ~Truthy(cred.cse_id)) \/ ~built
    THEN [ok |-> FALSE,
          obj |-> [api_key |-> cred.api_key, cse_id |-> cred.cse_id, search_service |-> None]]
    ELSE initialize_google_search(cred)

\* lines 33-38: every exception leaves the constructor as ValueError; built says
\* whether build() returned
Loaded(cred, built) ==
    IF cred.raises \/ ~Truthy(cred.api_key) \/ ~Truthy(cred.cse_id) \/ ~built
    THEN [ok |-> FALSE,
          obj |-> [api_key |-> cred.api_key, cse_id |-> cred.cse_id, search_service |-> None]]
    ELSE initialize_google_search(cred)

load_settings(env, cfg, built) ==
    Loaded(FromEnviron(cfg, env.GOOGLE_API_KEY, env.GOOGLE_SEARCH_ENGINE_ID), built)

(***************************************************************************)
(* MCPServer.perform_search                                                *)
(***************************************************************************)
\* data.get('num_results', 10)
DefaultNum == 10

\* the upstream API serves 1 to 10 results per call
ApiMaxNum == 10

\* country.upper()
Upper(s) == IF s = "us" THEN "US" ELSE s

\* if value: search_params[key] = sent
AddIf(params, value, key, sent) == IF Truthy(value) THEN SetItem(params, key, sent) ELSE params

\* mutant: max in place of min
MinNum_max(num_results) == IF num_results > MaxResults THEN num_results ELSE MaxResults

\* min(num_results, 10)
MinNum(num_results) == IF num_results < MaxResults THEN num_results ELSE MaxResults

\* lines 62-76
search_params(obj, a) ==
    AddIf(AddIf(AddIf(AddIf(
        [k \in {"q", "cx", "num"} |->
            CASE k = "q" -> a.query [] k = "cx" -> obj.cse_id [] OTHER -> MinNum(a.num_results)],
        a.date_restrict, "dateRestrict", a.date_restrict),
        a.language, "lr", <<"lang_", a.language>>),
        a.country, "cr", <<"country", Upper(a.country)>>),
        a.safe_search, "safe", a.safe_search)

\* The items of an upstream response: dictionaries, of which one (up.bad) may be
\* malformed: no keys at all, an empty metatags list, or no dictionary.
FullItem(i) ==
    [isDict |-> TRUE,
     d |-> [k \in {"title", "link", "snippet", "pagemap"} |->
              CASE k = "pagemap" ->
                       [m \in {"metatags"} |-> <<[t \in {"article:published_time"} |-> <<"D", i>>]>>]
                [] OTHER -> <<k, i>>]]

BadItem(kind) ==
    CASE kind = "bare" -> [isDict |-> TRUE, d |-> EmptyDict]
      [] kind = "emptyMetatags" ->
             [isDict |-> TRUE, d |-> [k \in {"pagemap"} |-> [m \in {"metatags"} |-> <<>>]]]
      [] OTHER -> [isDict |-> FALSE, d |-> EmptyDict]

\* self.search_service.cse().list(**search_params).execute(): the API rejects a
\* num outside 1..10; otherwise it fails, or answers with something that is no
\* dictionary, with a dictionary without 'items', or with the first num of the
\* up.avail results it has.
Upstream(params, up) ==
    IF params["num"] < 1 \/ params["num"] > ApiMaxNum \/ up.kind = "raise"
    THEN [raises |-> TRUE, isDict |-> FALSE, hasItems |-> FALSE, items |-> <<>>]
    ELSE [raises |-> FALSE, isDict |-> up.kind # "notDict", hasItems |-> up.kind = "items",
          items |-> [i \in 1..(IF up.avail < params["num"] THEN up.avail ELSE params["num"]) |->
                        IF i = up.bad THEN BadItem(up.badKind) ELSE FullItem(i)]]

\* lines 84-91 for one item: [0] of an empty metatags list raises IndexError
Formatted(d, pagemap, metatags) ==
    IF Len(metatags) = 0 THEN [raises |-> TRUE, value |-> None]
    ELSE [raises |-> FALSE,
          value |-> [title         |-> Get(d, "title", ""),
                     link          |-> Get(d, "link", ""),
                     snippet       |-> Get(d, "snippet", ""),
                     pagemap       |-> pagemap,
                     datePublished |-> Get(metatags[1], "article:published_time", ""),
                     source        |-> "google_search"]]

FormatPagemap(d, pagemap) == Formatted(d, pagemap, Get(pagemap, "metatags", <<EmptyDict>>))

\* item.get on something that is no dictionary raises AttributeError
FormatItem(item) ==
    IF ~item.isDict THEN [raises |-> TRUE, value |-> None]
    ELSE FormatPagemap(item.d, Get(item.d, "pagemap", EmptyDict))

\* formatted_results.append({...}); an exception ends the loop
FormatStep(acc, f) ==
    IF acc.raises \/ f.raises THEN [raises |-> TRUE, results |-> acc.results]
    ELSE [raises |-> FALSE, results |-> Append(acc.results, f.value)]

\* for item in result['items']: ...
RECURSIVE FormatAll(_, _, _)
FormatAll(items, k, acc) ==
    IF k > Len(items) THEN acc
    ELSE FormatAll(items, k + 1, FormatStep(acc, FormatItem(items[k])))

\* mutant: the results shaped before the exception are returned
Caught_partial(acc) == acc.results

\* except Exception as e: print(...); return []
Caught(acc) == IF acc.raises THEN <<>> ELSE acc.results

\* lines 79-97: 'items' in result raises TypeError when result is no dictionary
Shape(result) ==
    IF result.raises \/ ~result.isDict \/ ~result.hasItems THEN <<>>
    ELSE Caught(FormatAll(result.items, 1, [raises |-> FALSE, results |-> <<>>]))

Performed(params, up) ==
    [exc |-> "", results |-> Shape(Upstream(params, up)), sent |-> <<[params |-> params, up |-> up]>>]

perform_search(obj, a, up) ==
    IF obj.search_service = None
    THEN [exc |-> "ValueError", results |-> <<>>, sent |-> <<>>]
    ELSE Performed(search_params(obj, a), up)

(***************************************************************************)
(* search: POST /search                                                    *)
(***************************************************************************)
SBody(d) == [isNone |-> FALSE, d |-> d]

NoSBody == [isNone |-> TRUE, d |-> EmptyDict]

\* lines 116-121
Args(d) ==
    [query         |-> d["query"],
     num_results   |-> Get(d, "num_results", DefaultNum),
     date_restrict |-> Get(d, "date_restrict", None),
     language      |-> Get(d, "language", None),
     country       |-> Get(d, "country", None),
     safe_search   |-> Get(d, "safe_search", None)]

\* lines 123-134
SearchReply(r) ==
    [resp |-> IF r.exc = "" THEN Response(200, [results |-> r.results])
              ELSE Response(500, ErrorBody(<<"Search failed: ", "Google Search API not initialized">>)),
     sent |-> r.sent]

search(data, up, obj) ==
    IF data.isNone \/ DOMAIN data.d = {} \/ "query" \notin DOMAIN data.d
    THEN [resp |-> Response(400, ErrorBody(<<"Missing search query">>)), sent |-> <<>>]
    ELSE SearchReply(perform_search(obj, Args(data.d), up))

(***************************************************************************)
(* The search service as a state machine.                                  *)
(***************************************************************************)
Unbound == [api_key |-> None, cse_id |-> None, search_service |-> None]

NoSRequest == [isNone |-> TRUE, d |-> [k \in {"-"} |-> None]]

GsInit(Envs, Cfgs) ==
    /\ environ \in Envs
    /\ configFile \in Cfgs
    /\ mcp = Unbound
    /\ phase = "boot"
    /\ sreq = NoSRequest
    /\ sresp = NoResponse
    /\ upcall = <<>>

Boot(r) ==
    /\ phase' = IF r.ok THEN "serving" ELSE "fatal"
    /\ mcp' = IF r.ok THEN r.obj ELSE mcp

\* mcp = MCPServer(): the module is imported; an exception ends the process
Start ==
    /\ phase = "boot"
    /\ \E built \in BOOLEAN : Boot(load_settings(environ, configFile, built))
    /\ UNCHANGED <<lvVars, environ, configFile, sreq, sresp, upcall>>

SIdle == sreq = NoSRequest

SAnswer(data, out) ==
    /\ sreq' = data
    /\ sresp' = out.resp
    /\ upcall' = out.sent

\* one POST /search, handled to its response
Search(Datas, Ups) ==
    /\ phase = "serving"
    /\ SIdle
    /\ \E data \in Datas, up \in Ups : SAnswer(data, search(data, up, mcp))
    /\ UNCHANGED <<lvVars, environ, configFile, mcp, phase>>

\* The response is sent; nothing of the request is kept.
SReply ==
    /\ ~SIdle
    /\ sreq' = NoSRequest
    /\ sresp' = NoResponse
    /\ upcall' = <<>>
    /\ UNCHANGED <<lvVars, environ, configFile, mcp, phase>>

(***************************************************************************)
(* The inputs of the extraction service.                                   *)
(***************************************************************************)
UrlAlphabet == {"h", "1", ":", "/", "["}

AllUrls == SeqsUpTo(UrlAlphabet, MaxUrlLen)

GoodUrl == <<"h", ":", "/", "/", "h">>

OtherUrl == <<"h", ":", "/", "/", "1">>

BadUrl == <<"h", "/", "h">>

ThirdUrl == <<"h", ":", "/", "/", "h", "1">>

PlainNode(tag, text) == [tag |-> tag, parent |-> 0, text |-> text]

NoPrimary == [isNone |-> TRUE, html |-> <<>>]

PrimaryOf(html) == [isNone |-> FALSE, html |-> html]

PageOf(meta, dom, primary) == [meta |-> meta, dom |-> dom, primary |-> primary]

BasePage == PageOf(<<>>, <<PlainNode("body", <<"a">>)>>, NoPrimary)

\* documents: every tree of at most MaxNodes elements, in document order
DomTags == Unwanted \cup {"main", "article", "body"}

Letters == <<"a", "b", "c", "d", "e", "h", "o">>

RECURSIVE OnPathToRoot(_, _, _)
OnPathToRoot(parents, a, j) ==
    a = 0 \/ a = j \/ (j # 0 /\ OnPathToRoot(parents, a, parents[j]))

ParentVecs(n) ==
    {ps \in [1..n -> 0..(n - 1)] :
        \A i \in 1..n : ps[i] < i /\ (i > 1 => OnPathToRoot(ps, ps[i], i - 1))}

Doms == UNION {
    {[i \in 1..n |-> [tag |-> ts[i], parent |-> ps[i], text |-> <<Letters[i]>>]] :
        ts \in [1..n -> DomTags], ps \in ParentVecs(n)} : n \in 0..MaxNodes}

DomPages ==
    {PageOf(<<>>, d, pr) : d \in Doms, pr \in {NoPrimary, PrimaryOf(<<>>), PrimaryOf(<<"h">>)}}

\* meta tags: the attributes present and their values
Absent == "(absent)"

AttrsGiven(given) == [k \in {a \in DOMAIN given : given[a] # Absent} |-> given[k]]

TagOf(name, property, content) ==
    AttrsGiven([name |-> name, property |-> property, content |-> content])

MetaTags == {TagOf(n, p, c) : n \in {Absent, "", "description"},
                              p \in {Absent, "description", "og:title"},
                              c \in {Absent, "", "A", "B"}}

MetaPages == {PageOf(m, BasePage.dom, NoPrimary) : m \in SeqsUpTo(MetaTags, MaxTags)}

\* markdown texts
TextAlphabet == {NL, SP, TAB, "a", "#"}

\* a document with three blank lines in a row and double spaces in its text
SampleText == <<"a", SP, SP, "a", NL, NL, NL, NL, "#", "a">>

Texts == SeqsUpTo(TextAlphabet, MaxTextLen) \cup {SampleText}

TextPages ==
    {PageOf(<<>>, <<PlainNode("body", t)>>, NoPrimary) : t \in Texts}
    \cup {PageOf(<<>>, <<>>, PrimaryOf(t)) : t \in Texts}

\* long texts: a pattern repeated up to a length around the preview's
Patterns == {<<"a">>, <<"a", SP, SP, "b">>, <<"#", "a", NL>>, <<SP, "a", "b">>}

Repeat(pat, n) == [k \in 1..n |-> pat[((k - 1) % Len(pat)) + 1]]

LongLens == {n \in (PreviewLen - MaxOver - 2)..(PreviewLen + MaxOver + 2) : n >= 0}

LongPages ==
    {PageOf(<<>>, <<PlainNode("body", Repeat(pat, n))>>, NoPrimary) : pat \in Patterns, n \in LongLens}
    \cup {PageOf(<<>>, <<>>, PrimaryOf(Repeat(pat, n))) : pat \in Patterns, n \in LongLens}

UrlDatas == {NoBody, Body({"other"}, <<>>, <<>>)} \cup {Body({"url"}, u, <<>>) : u \in AllUrls}

FewDatas == {NoBody, Body({"url"}, GoodUrl, <<>>), Body({"url"}, BadUrl, <<>>)}

BatchUrls == {GoodUrl, OtherUrl, ThirdUrl, BadUrl}

BatchDatas == {NoBody, Body({"url"}, GoodUrl, <<>>)}
              \cup {Body({"urls"}, <<>>, us) : us \in SeqsUpTo(BatchUrls, MaxBatch)}

(***************************************************************************)
(* The inputs of the search service.                                       *)
(***************************************************************************)
Envs == [GOOGLE_API_KEY : {None, "", "K1"}, GOOGLE_SEARCH_ENGINE_ID : {None, "", "E1"}]

FullEnv == [GOOGLE_API_KEY |-> "K1", GOOGLE_SEARCH_ENGINE_ID |-> "E1"]

NoFile == [exists |-> FALSE, valid |-> FALSE, config |-> EmptyDict]

ConfigOf(api_key, cse_id) ==
    AttrsGiven([api_key |-> api_key, search_engine_id |-> cse_id])

Cfgs == {NoFile, [exists |-> TRUE, valid |-> FALSE, config |-> EmptyDict]}
        \cup {[exists |-> TRUE, valid |-> TRUE, config |-> ConfigOf(k, e)] :
                 k \in {Absent, "", "K2"}, e \in {Absent, "", "E2"}}

Query(d) == SBody(AttrsGiven(d))

\* requests: every count around the cap, and every choice of filters
NumDatas ==
    {NoSBody, SBody([k \in {"num_results"} |-> 3])}
    \cup {SBody(SetItem([k \in {"query"} |-> "q"], "num_results", n)) :
             n \in (0 - MaxExtraNum)..(MaxResults + MaxExtraNum)}
    \cup {Query([query |-> "q", date_restrict |-> dr, language |-> la, country |-> co,
                 safe_search |-> sa]) :
             dr \in {Absent, "d1"}, la \in {Absent, "en"}, co \in {Absent, "us"},
             sa \in {Absent, "", "high"}}

UpOf(kind, avail, bad, badKind) == [kind |-> kind, avail |-> avail, bad |-> bad, badKind |-> badKind]

Ups ==
    {UpOf(k, 0, 0, "bare") : k \in {"raise", "notDict", "noItems"}}
    \cup {UpOf("items", n, 0, "bare") : n \in 0..(MaxResults + MaxExtraNum)}
    \cup UNION {{UpOf("items", n, b, bk) : b \in {1, n}, bk \in {"bare", "emptyMetatags", "notDict"}} :
                   n \in 1..(MaxResults + MaxExtraNum)}

FewSDatas == {NoSBody, SBody(SetItem([k \in {"query"} |-> "q"], "num_results", 2))}

FewUps == {UpOf("raise", 0, 0, "bare"), UpOf("items", 3, 0, "bare")}

(***************************************************************************)
(* Specifications.  Each draws one kind of input widely and runs the same  *)
(* handlers.                                                               *)
(***************************************************************************)
GsIdle == GsInit({FullEnv}, {NoFile})

LvIdle == LvInit({BasePage})

InitUrl == LvInit({BasePage}) /\ GsIdle

NextUrl == Analyze(UrlDatas, NetOutcomes) \/ Reply

SpecUrl == InitUrl /\ [][NextUrl]_vars

InitBatch == LvInit({BasePage}) /\ GsIdle

NextBatch == BatchAnalyze(BatchDatas, NetOutcomes) \/ Reply

SpecBatch == InitBatch /\ [][NextBatch]_vars

NextPage == Analyze(FewDatas, NetOutcomes) \/ Reply

InitDom == LvInit(DomPages) /\ GsIdle

SpecDom == InitDom /\ [][NextPage]_vars

InitMeta == LvInit(MetaPages) /\ GsIdle

SpecMeta == InitMeta /\ [][NextPage]_vars

InitText == LvInit(TextPages) /\ GsIdle

SpecText == InitText /\ [][NextPage]_vars

InitLong == LvInit(LongPages) /\ GsIdle

SpecLong == InitLong /\ [][NextPage]_vars

InitStart == LvIdle /\ GsInit(Envs, Cfgs)

NextStart == Start \/ Search(FewSDatas, FewUps) \/ SReply

SpecStart == InitStart /\ [][NextStart]_vars

InitSearch == LvIdle /\ GsIdle

NextSearch == Start \/ Search(NumDatas, Ups) \/ SReply

SpecSearch == InitSearch /\ [][NextSearch]_vars

(***************************************************************************)
(* Claims about the extraction service.                                    *)
(***************************************************************************)
BatchRequest == ~Idle /\ ~Falsy(req) /\ "urls" \in req.keys

LastAt(urls, k) == \A j \in (k + 1)..Len(urls) : urls[j] # urls[k]

\* the fetch a call made, for the operator that needs one ("ok" when it made none)
NetOf(c) == IF c.net = "none" THEN "ok" ELSE c.net

C1Entry(entry, c) ==
    /\ (c.exc # "") = (~is_valid_url(c.url) \/ c.net # "ok")
    /\ c.exc # "" => entry = ErrorBody(c.msg)
    /\ c.exc = "" => /\ entry = c.data
                     /\ entry.url = c.url
                     /\ {"markdown_content", "meta_tags", "stats", "content_preview", "title",
                         "description"} \subseteq DOMAIN entry

\* C1: a /batch_analyze request with a 'urls' list is answered 200 with one entry
\* per input URL; every URL is extracted whatever happened to the others, a URL
\* whose extraction failed maps to {error} and any other to its ExtractedPage.
C1_BatchIsolatesFailures ==
    BatchRequest =>
        /\ resp.status = 200
        /\ DOMAIN resp.body = {req.urls[k] : k \in 1..Len(req.urls)}
        /\ Len(calls) = Len(req.urls)
        /\ \A k \in 1..Len(req.urls) :
              /\ calls[k] = extract_content(req.urls[k], NetOf(calls[k]), page)
              /\ LastAt(req.urls, k) => C1Entry(resp.body[req.urls[k]], calls[k])

\* three distinct URLs, the second failing to fetch: three keys, one error
C1_Witness ==
    /\ BatchRequest
    /\ req.urls = <<GoodUrl, OtherUrl, ThirdUrl>>
    /\ Len(calls) = 3
    /\ calls[1].exc = "" /\ calls[2].net = "RequestException" /\ calls[3].exc = ""
    /\ Cardinality(DOMAIN resp.body) = 3
    /\ "error" \in DOMAIN resp.body[req.urls[2]]
    /\ "markdown_content" \in DOMAIN resp.body[req.urls[1]]

LacksPart(parsed) == parsed.scheme = <<>> \/ parsed.netloc = <<>>

C2Call(c, parsed) ==
    /\ LacksPart(parsed) => c.exc = "ValueError" /\ ~c.fetched
    /\ c.fetched => ~parsed.raises /\ ~LacksPart(parsed)

\* C2: extract_content on a URL without a scheme or without a network location
\* raises the ValueError and fetches nothing; a fetch is made only for a URL that
\* is_valid_url accepts.
C2_NoFetchOfInvalidUrl ==
    /\ \A k \in 1..Len(calls) : C2Call(calls[k], urlparse(calls[k].url))
    /\ (Len(calls) = 1 /\ LacksPart(urlparse(calls[1].url))) => resp.status = 400

\* a URL with a scheme and no network location was refused without a fetch
C2_Witness ==
    /\ Len(calls) = 1
    /\ urlparse(calls[1].url).scheme # <<>>
    /\ urlparse(calls[1].url).netloc = <<>>
    /\ calls[1].exc = "ValueError"
    /\ ~calls[1].fetched
    /\ resp.status = 400

UrlMissing == Falsy(req) \/ "url" \notin req.keys

\* C3: /analyze answers 400 exactly when the URL is missing or invalid, 500
\* exactly when a valid URL fails in fetch, parse or convert, and 200 otherwise;
\* a failure after validation is never raised as the invalid-input error.
C3_StatusTellsErrorKind ==
    ~Idle =>
        /\ resp.status \in {200, 400, 500}
        /\ (resp.status = 400) = (UrlMissing \/ ~is_valid_url(req.url))
        /\ (resp.status = 500) = (~UrlMissing /\ is_valid_url(req.url) /\ calls[1].net # "ok")
        /\ \A k \in 1..Len(calls) : calls[k].fetched => calls[k].exc # "ValueError"

\* a valid URL whose fetch failed was answered 500
C3_Witness ==
    /\ ~Idle
    /\ ~UrlMissing
    /\ is_valid_url(req.url)
    /\ Len(calls) = 1 /\ calls[1].net = "RequestException"
    /\ resp.status = 500

\* the elements the pruning leaves: neither removed nor below a removed one
Kept(dom) ==
    {i \in 1..Len(dom) : dom[i].tag \notin Unwanted
                         /\ \A a \in 1..Len(dom) : IsAncestor(dom, a, i) => dom[a].tag \notin Unwanted}

FirstOf(dom, S, tag) == {i \in S : dom[i].tag = tag /\ \A j \in S : dom[j].tag = tag => i <= j}

\* the first <main>, else the first <article>, else the first <body> left
ExpectedFragment(dom, S) ==
    IF FirstOf(dom, S, "main") # {} THEN FirstOf(dom, S, "main")
    ELSE IF FirstOf(dom, S, "article") # {} THEN FirstOf(dom, S, "article")
    ELSE FirstOf(dom, S, "body")

CharsOf(s) == {s[k] : k \in 1..Len(s)}

C7Fallback(c, dom) ==
    /\ c.frag.kind = "element"
    /\ {c.frag.node} = ExpectedFragment(dom, Kept(dom))
    /\ CharsOf(c.data.markdown_content)
           = {dom[i].text[1] : i \in Kept(dom) \cap Subtree(dom, c.frag.node)}

C7Call(c, pg) ==
    /\ (c.frag.kind = "primary") = (~pg.primary.isNone /\ pg.primary.html # <<>>)
    /\ c.frag.kind # "primary" => C7Fallback(c, pg.dom)

\* C7: the fallback runs exactly when the primary extractor yields nothing; it
\* drops every script, style, nav, footer, header and aside element and converts
\* the first <main>, else <article>, else <body> left, always an element of the
\* document.
C7_FallbackFragmentIsElement ==
    \A k \in 1..Len(calls) : calls[k].exc = "" => C7Call(calls[k], page)

\* the same, for the documents in which a <main>, <article> or <body> is left
C7_FallbackWhenElementLeft ==
    \A k \in 1..Len(calls) :
        (calls[k].exc = "" /\ ExpectedFragment(page.dom, Kept(page.dom)) # {})
            => C7Call(calls[k], page)

\* what the fallback converts when no <main>, <article> or <body> is left
C7_NoneConverted ==
    \A k \in 1..Len(calls) :
        (calls[k].exc = "" /\ calls[k].frag.kind = "None")
            => calls[k].data.markdown_content = <<"N", "o", "n", "e">>

NoBlankRun(s) ==
    \A i, j \in 1..Len(s) :
        ~(/\ j >= i + 2
          /\ s[i] = NL /\ s[j] = NL
          /\ \A m \in i..j : IsSpace(s[m])
          /\ \E m \in (i + 1)..(j - 1) : s[m] = NL)

NoSpaceRun(s) == \A k \in 1..(Len(s) - 1) : ~(s[k] = SP /\ s[k + 1] = SP)

\* the words of a text, counted at their last character
WordEnds(s) == {k \in 1..Len(s) : IsWord(s[k]) /\ (k = Len(s) \/ ~IsWord(s[k + 1]))}

C8Page(body) ==
    /\ NoBlankRun(body.markdown_content)
    /\ NoSpaceRun(body.markdown_content)
    /\ body.stats.word_count = Cardinality(WordEnds(body.markdown_content))
    /\ body.stats.approximate_chars = Len(body.markdown_content)
    /\ Len(body.markdown_content) <= PreviewLen
           => body.content_preview.first_500_chars = body.markdown_content

\* C8: the markdown of an extracted page holds no run of more than one blank
\* line and no run of more than one space, and the word count, the character
\* count and the preview are those of that normalized text.
C8_MarkdownNormalized == resp.status = 200 => C8Page(resp.body)

RawText(pg) == IF pg.primary.isNone THEN pg.dom[1].text ELSE pg.primary.html

\* the document with three blank lines in a row and double spaces was extracted
C8_Witness ==
    /\ resp.status = 200
    /\ RawText(page) = SampleText
    /\ resp.body.markdown_content = <<"a", SP, "a", NL, NL, "#", SP, "a">>
    /\ resp.body.stats.word_count = 3

\* the name a tag is filed under: its name attribute, else its property attribute
KeyOf(tag) ==
    IF "name" \in DOMAIN tag THEN tag["name"]
    ELSE IF "property" \in DOMAIN tag THEN tag["property"] ELSE ""

ContentOf(tag) == IF "content" \in DOMAIN tag THEN tag["content"] ELSE ""

SameKeyLater(tags, i, j) ==
    /\ i < j
    /\ KeyOf(tags[i]) # ""
    /\ KeyOf(tags[i]) = KeyOf(tags[j])
    /\ ContentOf(tags[i]) # ContentOf(tags[j])
    /\ \A m \in (j + 1)..Len(tags) : KeyOf(tags[m]) # KeyOf(tags[j])

LaterStored(meta_tags, tag) ==
    KeyOf(tag) \in DOMAIN meta_tags /\ meta_tags[KeyOf(tag)] = ContentOf(tag)

\* C9 as stated: of two <meta> tags with the same name/property value and
\* different content, the later one's content is in meta_tags under that name.
C9_LaterTagWins ==
    resp.status = 200 =>
        \A i, j \in 1..Len(page.meta) :
            SameKeyLater(page.meta, i, j) => LaterStored(resp.body.meta_tags, page.meta[j])

\* C9: of two <meta> tags with the same name/property value and different,
\* non-empty content, the later one's content is in meta_tags under that name
\* (a tag whose content is empty or missing is not collected).
C9_LaterNonEmptyTagWins ==
    resp.status = 200 =>
        \A i, j \in 1..Len(page.meta) :
            (SameKeyLater(page.meta, i, j) /\ ContentOf(page.meta[i]) # ""
                                           /\ ContentOf(page.meta[j]) # "")
                => LaterStored(resp.body.meta_tags, page.meta[j])

\* a name-style and a later property-style tag of one name, with different content
C9_Witness ==
    /\ resp.status = 200
    /\ Len(page.meta) = 2
    /\ page.meta[1] = TagOf("description", Absent, "A")
    /\ page.meta[2] = TagOf(Absent, "description", "B")
    /\ resp.body.meta_tags["description"] = "B"
    /\ resp.body.description = "B"

C10Preview(md, preview) ==
    /\ Len(md) <= PreviewLen => preview = md
    /\ Len(md) > PreviewLen =>
          /\ Len(preview) = PreviewLen + 3
          /\ \A k \in 1..PreviewLen : preview[k] = md[k]
          /\ \A k \in (PreviewLen + 1)..(PreviewLen + 3) : preview[k] = "."

\* C10: first_500_chars is the markdown content when that is at most 500
\* characters long, and its first 500 characters followed by '...' otherwise.
C10_PreviewTruncates ==
    resp.status = 200 =>
        C10Preview(resp.body.markdown_content, resp.body.content_preview.first_500_chars)

\* a text of 501 characters was cut to 500 and the ellipsis
C10_Witness ==
    /\ resp.status = 200
    /\ Len(resp.body.markdown_content) = PreviewLen + 1
    /\ Len(resp.body.content_preview.first_500_chars) = PreviewLen + 3

(***************************************************************************)
(* Claims about the search service.                                        *)
(***************************************************************************)
HasQuery == ~SIdle /\ ~sreq.isNone /\ "query" \in DOMAIN sreq.d

Requested == IF "num_results" \in DOMAIN sreq.d THEN sreq.d["num_results"] ELSE DefaultNum

\* the items upstream delivered to a call
Delivered(call) ==
    IF call.up.kind # "items" \/ call.params["num"] < 1 \/ call.params["num"] > ApiMaxNum THEN 0
    ELSE IF call.up.avail < call.params["num"] THEN call.up.avail ELSE call.params["num"]

\* upstream failed, or its response or one of its items is malformed
UpstreamBroken(call) ==
    \/ call.up.kind \in {"raise", "notDict"}
    \/ call.params["num"] < 1
    \/ /\ call.up.bad \in 1..Delivered(call)
       /\ call.up.badKind \in {"emptyMetatags", "notDict"}

\* C4: with the adapter initialized perform_search never raises: /search with a
\* query answers 200, with no results when the upstream call failed or its
\* response or one of its items was malformed.
C4_SearchNeverRaises ==
    /\ ~SIdle => phase = "serving" /\ mcp.search_service # None
    /\ HasQuery =>
          /\ sresp.status = 200
          /\ Len(upcall) = 1
          /\ UpstreamBroken(upcall[1]) => sresp.body.results = <<>>

\* the last of several items was malformed and nothing was returned
C4_Witness ==
    /\ HasQuery
    /\ sresp.status = 200
    /\ upcall[1].up.bad > 1
    /\ upcall[1].up.bad = Delivered(upcall[1])
    /\ upcall[1].up.badKind = "emptyMetatags"
    /\ sresp.body.results = <<>>

C5_WitnessCap ==
    /\ HasQuery
    /\ Requested > MaxResults
    /\ upcall[1].up.avail > MaxResults
    /\ Len(sresp.body.results) = MaxResults

EnvBoth == Truthy(environ.GOOGLE_API_KEY) /\ Truthy(environ.GOOGLE_SEARCH_ENGINE_ID)

FileKey == IF "api_key" \in DOMAIN configFile.config THEN configFile.config["api_key"] ELSE None

FileId ==
    IF "search_engine_id" \in DOMAIN configFile.config
    THEN configFile.config["search_engine_id"] ELSE None

FileBoth == configFile.exists /\ configFile.valid /\ Truthy(FileKey) /\ Truthy(FileId)

\* C6: the service serves only after an initialization that found a non-empty
\* API key and search-engine id, both from the environment when it supplies
\* both and both from the config file otherwise, and that set the search
\* client; when neither source supplies both, initialization is fatal.
C6_NoServingWithoutCredentials ==
    /\ phase = "serving" =>
          /\ Truthy(mcp.api_key) /\ Truthy(mcp.cse_id)
          /\ mcp.search_service # None
          /\ EnvBoth => mcp.api_key = environ.GOOGLE_API_KEY
                        /\ mcp.cse_id = environ.GOOGLE_SEARCH_ENGINE_ID
          /\ ~EnvBoth => FileBoth /\ mcp.api_key = FileKey /\ mcp.cse_id = FileId
    /\ (phase # "boot" /\ ~EnvBoth /\ ~FileBoth) => phase = "fatal"
    /\ ~SIdle => phase = "serving"

\* the environment supplied only the key, and both came from the file
C6_Witness ==
    /\ phase = "serving"
    /\ environ.GOOGLE_API_KEY = "K1"
    /\ ~EnvBoth
    /\ mcp.api_key = "K2" /\ mcp.cse_id = "E2"
    /\ ~SIdle

====
